---------------------------- MODULE Spec2Model ----------------------------
(***************************************************************************)
(* Model of drillingcalcs.py: minimum_curvature_calc and                   *)
(* vertical_section_calc.                                                  *)
(*                                                                         *)
(* Python floats (IEEE binary64, round to nearest even) are modelled by a  *)
(* binary floating-point format with the same rounding rule and Precision  *)
(* significant bits instead of 53, so that every product of two            *)
(* significands fits TLC's integers.  A float is [k, m, e]: k = "fin"      *)
(* with value m * 2^e (m = 0, or 2^(Precision-1) <= |m| < 2^Precision),    *)
(* or k = "nan".  The exponent is unbounded (no overflow, no subnormals)   *)
(* and zero is unsigned.  The library functions (cos, sin, tan, arccos,    *)
(* arctan) return the correctly rounded value of the real function at the  *)
(* exact value of their argument, read from tables.                        *)
(***************************************************************************)
EXTENDS Integers, Sequences, FiniteSets

(* significant bits of the modelled float *)
Precision == 13

Fin(m, e) == [k |-> "fin", m |-> m, e |-> e]
NaN == [k |-> "nan", m |-> 0, e |-> 0]
(* Python's None, as an output value *)
None == [k |-> "none", m |-> 0, e |-> 0]
(* the place of an output of a call that returned nothing *)
NoValue == [k |-> "novalue", m |-> 0, e |-> 0]
Zero == Fin(0, 0)

IsNaN(x) == x.k = "nan"
IsFinite(x) == x.k = "fin"

RECURSIVE BitLen(_)
BitLen(a) == IF a = 0 THEN 0 ELSE 1 + BitLen(a \div 2)

(* the float nearest to M * 2^E, ties to even *)
Round(M, E) ==
    IF M = 0 THEN Zero
    ELSE LET s == IF M < 0 THEN -1 ELSE 1
             a == s * M
             n == BitLen(a)
         IN  IF n > Precision
             THEN LET sh == n - Precision
                      q == a \div (2 ^ sh)
                      r == a % (2 ^ sh)
                      half == 2 ^ (sh - 1)
                      q1 == IF r > half \/ (r = half /\ q % 2 = 1)
                            THEN q + 1 ELSE q
                  IN  IF q1 = 2 ^ Precision
                      THEN Fin(s * (q1 \div 2), E + sh + 1)
                      ELSE Fin(s * q1, E + sh)
             ELSE Fin(s * a * (2 ^ (Precision - n)), E - (Precision - n))

(* an int converted to float *)
Float(n) == Round(n, 0)

Neg(x) == IF IsNaN(x) THEN NaN ELSE Fin(0 - x.m, x.e)

(* x + y *)
Add(x, y) ==
    IF IsNaN(x) \/ IsNaN(y) THEN NaN
    ELSE IF x.m = 0 THEN y
    ELSE IF y.m = 0 THEN x
    ELSE LET hi == IF x.e >= y.e THEN x ELSE y
             lo == IF x.e >= y.e THEN y ELSE x
             d == hi.e - lo.e
         IN  IF d > Precision + 1 THEN hi
             ELSE Round(hi.m * (2 ^ d) + lo.m, lo.e)

(* x - y *)
Sub(x, y) == Add(x, Neg(y))

(* x * y *)
Mul(x, y) ==
    IF IsNaN(x) \/ IsNaN(y) THEN NaN
    ELSE Round(x.m * y.m, x.e + y.e)

(* x / y; the last bit of the scaled quotient is the sticky bit.  A zero   *)
(* divisor is the caller's case: Python raises ZeroDivisionError before    *)
(* any quotient exists, and numpy's 0 / 0 is NaN.                          *)
Div(x, y) ==
    IF IsNaN(x) \/ IsNaN(y) THEN NaN
    ELSE IF y.m = 0 THEN NaN
    ELSE IF x.m = 0 THEN Zero
    ELSE LET s == IF (x.m > 0) = (y.m > 0) THEN 1 ELSE -1
             ax == IF x.m < 0 THEN 0 - x.m ELSE x.m
             ay == IF y.m < 0 THEN 0 - y.m ELSE y.m
             N == ax * (2 ^ (Precision + 1))
             q == N \div ay
             r == N % ay
         IN  Round(s * (2 * q + (IF r = 0 THEN 0 ELSE 1)),
                   x.e - y.e - (Precision + 1) - 1)

RECURSIVE ISqrt(_, _, _)
(* the largest r in lo..hi with r * r <= N *)
ISqrt(N, lo, hi) ==
    IF lo = hi THEN lo
    ELSE LET mid == (lo + hi + 1) \div 2
         IN  IF mid * mid <= N THEN ISqrt(N, mid, hi) ELSE ISqrt(N, lo, mid - 1)

(* x ** .5 *)
Sqrt(x) ==
    IF IsNaN(x) THEN NaN
    ELSE IF x.m < 0 THEN NaN
    ELSE IF x.m = 0 THEN Zero
    ELSE LET k == IF (x.e - (Precision + 2)) % 2 = 0
                  THEN Precision + 2 ELSE Precision + 3
             N == x.m * (2 ^ k)
             r == ISqrt(N, 0, 2 ^ 15)
         IN  Round(2 * r + (IF r * r = N THEN 0 ELSE 1), ((x.e - k) \div 2) - 1)

(* x == 0 and x != 0 as Python compares floats: NaN is not equal to 0 *)
EqZero(x) == IsFinite(x) /\ x.m = 0
NeZero(x) == ~EqZero(x)

(* x <= y, false when either is NaN *)
Le(x, y) == IsFinite(x) /\ IsFinite(y) /\ Sub(x, y).m <= 0
Abs(x) == IF IsFinite(x) /\ x.m < 0 THEN Neg(x) ELSE x


(* a table row <<m, e, rm, re>>: the function at m * 2^e is rm * 2^re *)
Lookup(table, x) ==
    LET row == CHOOSE t \in table : t[1] = x.m /\ t[2] = x.e
    IN  Fin(row[3], row[4])

One == Float(1)
Two == Float(2)
(* the literal 0.5 *)
Half == Div(One, Two)

CosTable ==
{
    <<-6434, -11, -4096, -12>>, <<-7506, -12, -4239, -14>>, <<-6434, -12, -4783, -30>>,
    <<-6433, -12, 8043, -25>>, <<-5361, -12, 4243, -14>>, <<-5116, -12, 5181, -14>>,
    <<-4535, -12, 7327, -14>>, <<-8051, -13, 4544, -13>>, <<-6434, -13, 5793, -13>>,
    <<-4816, -13, 6817, -13>>, <<-4290, -13, 7094, -13>>, <<-7595, -14, 7327, -13>>,
    <<-5272, -14, 7772, -13>>, <<-5271, -14, 7772, -13>>, <<-4292, -14, 7913, -13>>,
    <<-4288, -14, 7913, -13>>, <<-6469, -15, 8033, -13>>, <<-5719, -16, 8161, -13>>,
    <<0, 0, 4096, -12>>, <<6469, -15, 8033, -13>>, <<4288, -14, 7913, -13>>,
    <<4292, -14, 7913, -13>>, <<5271, -14, 7772, -13>>, <<5272, -14, 7772, -13>>,
    <<7595, -14, 7327, -13>>, <<7596, -14, 7327, -13>>, <<4290, -13, 7094, -13>>,
    <<4816, -13, 6817, -13>>, <<6434, -13, 5793, -13>>, <<8051, -13, 4544, -13>>,
    <<4535, -12, 7327, -14>>, <<5116, -12, 5181, -14>>, <<5361, -12, 4243, -14>>,
    <<5625, -12, 6430, -15>>, <<6076, -12, 5720, -16>>, <<6433, -12, 8043, -25>>,
    <<6434, -12, -4783, -30>>, <<7242, -12, -6422, -15>>, <<7506, -12, -4239, -14>>,
    <<7752, -12, -5182, -14>>, <<4166, -11, -7323, -14>>, <<4421, -11, -4543, -13>>,
    <<4825, -11, -5791, -13>>, <<5230, -11, -6817, -13>>, <<5484, -11, -7326, -13>>,
    <<5775, -11, -7772, -13>>, <<6255, -11, -8161, -13>>, <<6434, -11, -4096, -12>>,
    <<7093, -11, -7772, -13>>, <<7383, -11, -7328, -13>>, <<7638, -11, -6817, -13>>,
    <<8042, -11, -5794, -13>>, <<4223, -10, -4547, -13>>, <<4350, -10, -7337, -14>>,
    <<4496, -10, -5181, -14>> }

SinTable ==
{
    <<-5719, -16, -5712, -16>>, <<0, 0, 0, 0>>, <<6434, -13, 5793, -13>>,
    <<5361, -12, 7913, -13>>, <<6076, -12, 8161, -13>>, <<6434, -12, 4096, -12>>,
    <<7506, -12, 7913, -13>>, <<6255, -11, 5720, -16>>, <<6434, -11, -4783, -29>> }

TanTable ==
{
    <<4288, -15, 4313, -15>>, <<4290, -14, 4391, -14>>, <<5361, -13, 6285, -13>>,
    <<6159, -13, 7660, -13>>, <<6160, -13, 7662, -13>>, <<6433, -13, 8190, -13>>,
    <<6434, -13, 4096, -12>>, <<6708, -13, 4380, -12>>, <<6709, -13, 4381, -12>>,
    <<7506, -13, 5338, -12>>, <<5362, -12, 7646, -11>>, <<5898, -12, 7781, -10>>,
    <<6434, -12, -7015, 5>> }

ArccosTable ==
{
    <<-4096, -12, 6434, -11>>, <<-7913, -13, 5898, -11>>, <<-7096, -13, 5362, -11>>,
    <<-4239, -14, 7506, -12>>, <<-4400, -16, 6709, -12>>, <<-4384, -16, 6708, -12>>,
    <<-4783, -30, 6434, -12>>, <<0, 0, 6434, -12>>, <<4096, -24, 6433, -12>>,
    <<4384, -16, 6160, -12>>, <<4400, -16, 6159, -12>>, <<4243, -14, 5361, -12>>,
    <<7094, -13, 4290, -13>>, <<7913, -13, 4288, -14>>, <<4096, -12, 0, 0>> }

ArctanTable ==
{
    <<-6144, -11, -5116, -12>>, <<-4096, -11, -4535, -12>>, <<-6144, -12, -8051, -13>>,
    <<-4096, -12, -6434, -13>>, <<-5461, -13, -4817, -13>>, <<-4096, -13, -7596, -14>>,
    <<-5461, -14, -5271, -14>>, <<0, 0, 0, 0>>, <<5461, -14, 5271, -14>>,
    <<4096, -13, 7596, -14>>, <<5461, -13, 4817, -13>>, <<4096, -12, 6434, -13>>,
    <<6144, -12, 8051, -13>>, <<4096, -11, 4535, -12>>, <<6144, -11, 5116, -12>> }


(* fl(pi / 180) and fl(180 / pi), the factors of math.radians and math.degrees *)
DegToRad == Fin(4575, -18)
RadToDeg == Fin(7334, -7)

math_radians(x) == Mul(x, DegToRad)
math_degrees(x) == Mul(x, RadToDeg)

np_cos(x) == IF IsNaN(x) THEN NaN ELSE Lookup(CosTable, x)
np_sin(x) == IF IsNaN(x) THEN NaN ELSE Lookup(SinTable, x)
np_tan(x) == IF IsNaN(x) THEN NaN ELSE Lookup(TanTable, x)
np_arctan(x) == IF IsNaN(x) THEN NaN ELSE Lookup(ArctanTable, x)

(* numpy's arccos: NaN (with a RuntimeWarning) outside [-1, 1] *)
InDomain(x) == Le(Neg(One), x) /\ Le(x, One)
np_arccos(x) == IF InDomain(x) THEN Lookup(ArccosTable, x) ELSE NaN

(* ---------------- minimum_curvature_calc, statement by statement -------- *)

inclination(dip) == math_radians(dip)
azimuth(az, convergence) == math_radians(Sub(az, convergence))

(* the value handed to np.arccos *)
dogleg_argument(inclination_1, azimuth_1, inclination_2, azimuth_2) ==
    Sub(np_cos(Sub(inclination_2, inclination_1)),
        Mul(Mul(np_sin(inclination_1), np_sin(inclination_2)),
            Sub(One, np_cos(Sub(azimuth_2, azimuth_1)))))

dogleg_of(inclination_1, azimuth_1, inclination_2, azimuth_2) ==
    np_arccos(dogleg_argument(inclination_1, azimuth_1, inclination_2, azimuth_2))

(* mutant: the zero-length test is missing *)
zero_length_never(distance) == FALSE

(* the test "distance_between_stations == 0" *)
zero_length(distance) == EqZero(distance)

(* mutant: the diagnostic is printed outside the branch *)
diagnostic_lines_always(distance) == 1

(* lines the call prints: the diagnostic, inside the zero-length branch *)
diagnostic_lines(distance) == IF zero_length(distance) THEN 1 ELSE 0

(* mutant: the zero-length branch returns zero deltas *)
degenerate_result_zeros == << Zero, Zero, Zero, Zero >>

(* what the zero-length branch returns *)
degenerate_result == << None, None, None, None >>

(* a call that raised returned nothing *)
no_return == << NoValue, NoValue, NoValue, NoValue >>

(* degrees per 30 length units *)
CourseLength == 30

(* mutant: 30 * distance for 30 / distance *)
dogleg_severity_times_distance(dogleg, distance) ==
    math_degrees(Mul(dogleg, Mul(Float(CourseLength), distance)))

dogleg_severity_of(dogleg, distance) ==
    math_degrees(Mul(dogleg, Div(Float(CourseLength), distance)))

(* the test "dogleg != 0.0" *)
has_dogleg(dogleg) == NeZero(dogleg)

ratio_factor_of(dogleg) ==
    IF has_dogleg(dogleg)
    THEN Div(Mul(Two, np_tan(Div(dogleg, Two))), dogleg)
    ELSE One

(* mutant: the factor 0.5 is missing *)
tvd_difference_no_half(distance, inclination_1, inclination_2, ratio_factor) ==
    Mul(Mul(distance, Add(np_cos(inclination_1), np_cos(inclination_2))),
        ratio_factor)

tvd_difference_of(distance, inclination_1, inclination_2, ratio_factor) ==
    Mul(Mul(Mul(Half, distance),
            Add(np_cos(inclination_1), np_cos(inclination_2))),
        ratio_factor)

northing_difference_of(distance, inclination_1, azimuth_1, inclination_2, azimuth_2, ratio_factor) ==
    Mul(Mul(Mul(Half, distance),
            Add(Mul(np_sin(inclination_1), np_cos(azimuth_1)),
                Mul(np_sin(inclination_2), np_cos(azimuth_2)))),
        ratio_factor)

easting_difference_of(distance, inclination_1, azimuth_1, inclination_2, azimuth_2, ratio_factor) ==
    Mul(Mul(Mul(Half, distance),
            Add(Mul(np_sin(inclination_1), np_sin(azimuth_1)),
                Mul(np_sin(inclination_2), np_sin(azimuth_2)))),
        ratio_factor)

(* the divisors of the divisions a call of minimum_curvature_calc executes, *)
(* in order: 30 / distance, then dogleg / 2 and ... / dogleg                *)
mcc_divisors(distance, dogleg) ==
    IF zero_length(distance) THEN << >>
    ELSE IF EqZero(distance) THEN << distance >>
    ELSE IF has_dogleg(dogleg) THEN << distance, Two, dogleg >>
    ELSE << distance >>

(* The whole call.  ret is the returned 4-tuple (tvd, northing, easting,   *)
(* dogleg severity); raised is the exception that ended the call, if any;  *)
(* printed counts the lines written to stdout.                             *)
minimum_curvature_calc(distance_between_stations, azimuth_survey_station_1, dip_survey_station_1, azimuth_survey_station_2, dip_survey_station_2, convergence) ==
    LET distance == distance_between_stations
        inclination_1 == inclination(dip_survey_station_1)
        azimuth_1 == azimuth(azimuth_survey_station_1, convergence)
        inclination_2 == inclination(dip_survey_station_2)
        azimuth_2 == azimuth(azimuth_survey_station_2, convergence)
        argument == dogleg_argument(inclination_1, azimuth_1,
                                    inclination_2, azimuth_2)
        dogleg == dogleg_of(inclination_1, azimuth_1, inclination_2, azimuth_2)
        divisors == mcc_divisors(distance, dogleg)
    IN  IF zero_length(distance)
        THEN [ret |-> degenerate_result, raised |-> "",
              printed |-> diagnostic_lines(distance), divisors |-> divisors, argument |-> argument,
              dogleg |-> dogleg, ratio_factor |-> None]
        ELSE IF EqZero(distance)
        THEN [ret |-> no_return,
              raised |-> "ZeroDivisionError",
              printed |-> diagnostic_lines(distance),
              divisors |-> divisors, argument |-> argument,
              dogleg |-> dogleg, ratio_factor |-> None]
        ELSE LET dogleg_severity == dogleg_severity_of(dogleg, distance)
                 ratio_factor == ratio_factor_of(dogleg)
             IN  [ret |-> << tvd_difference_of(distance, inclination_1,
                                               inclination_2, ratio_factor),
                             northing_difference_of(distance, inclination_1,
                                 azimuth_1, inclination_2, azimuth_2,
                                 ratio_factor),
                             easting_difference_of(distance, inclination_1,
                                 azimuth_1, inclination_2, azimuth_2,
                                 ratio_factor),
                             dogleg_severity >>,
                  raised |-> "", printed |-> diagnostic_lines(distance),
                  divisors |-> divisors,
                  argument |-> argument, dogleg |-> dogleg,
                  ratio_factor |-> ratio_factor]

(* ---------------- vertical_section_calc --------------------------------- *)

(* mutant: the square root is missing *)
closure_distance_no_root(northing, easting) ==
    Add(Mul(northing, northing), Mul(easting, easting))

closure_distance_of(northing, easting) ==
    Sqrt(Add(Mul(northing, northing), Mul(easting, easting)))

(* the test "northing == 0" *)
zero_northing(northing) == EqZero(northing)

closure_azimuth_of(northing, easting) ==
    IF zero_northing(northing)
    THEN Zero
    ELSE math_degrees(np_arctan(Div(easting, northing)))

(* mutant: the operands are swapped *)
directional_difference_swapped(closure_azimuth, vertical_section_difference) ==
    Sub(vertical_section_difference, closure_azimuth)

directional_difference_of(closure_azimuth, vertical_section_difference) ==
    Sub(closure_azimuth, vertical_section_difference)

vertical_section_of(closure_distance, closure_azimuth, vertical_section_difference) ==
    Mul(closure_distance,
        np_cos(math_radians(Sub(vertical_section_difference, closure_azimuth))))

(* the divisors of the divisions a call of vertical_section_calc executes *)
vsc_divisors(northing) ==
    IF zero_northing(northing) THEN << >> ELSE << northing >>

(* The whole call; ret is (directional difference, closure distance,       *)
(* closure azimuth, vertical section).                                     *)
vertical_section_calc(northing, easting, vertical_section_difference) ==
    LET closure_distance == closure_distance_of(northing, easting)
    IN  IF ~zero_northing(northing) /\ EqZero(northing)
        THEN [ret |-> no_return,
              raised |-> "ZeroDivisionError", printed |-> 0,
              divisors |-> vsc_divisors(northing)]
        ELSE LET closure_azimuth == closure_azimuth_of(northing, easting)
             IN  [ret |-> << directional_difference_of(closure_azimuth,
                                 vertical_section_difference),
                             closure_distance,
                             closure_azimuth,
                             vertical_section_of(closure_distance,
                                 closure_azimuth, vertical_section_difference) >>,
                  raised |-> "", printed |-> 0,
                  divisors |-> vsc_divisors(northing)]

(* ---------------- the calls the model makes ----------------------------- *)

(* bounds of the inputs *)
MaxDistance == 2
MaxCoordinate == 2
MaxCalls == 2

Distances == (0 - MaxDistance) .. MaxDistance
Dips == {0, 75, 90, 105}
Azimuths == {0, 90, 180}
Convergences == {0, 5}
Coordinates == (0 - MaxCoordinate) .. MaxCoordinate
PlanDirections == {0, 45, 90, 180}

MccInputs == Distances \X Azimuths \X Dips \X Azimuths \X Dips \X Convergences
VscInputs == Coordinates \X Coordinates \X PlanDirections

NoResult == [ret |-> no_return, raised |-> "", printed |-> 0,
             divisors |-> << >>]

VARIABLES
    fn,        \* the function under call: "mcc" or "vsc"
    args,      \* its arguments, in the order of the signature
    pc,        \* "call": about to be called; "done": it has returned or raised
    result,    \* what the last call produced
    stdout,    \* lines written to stdout so far
    calls,     \* calls completed so far
    first      \* what the first call produced

vars == << fn, args, pc, result, stdout, calls, first >>

Init ==
    /\ \/ fn = "mcc" /\ args \in MccInputs
       \/ fn = "vsc" /\ args \in VscInputs
    /\ pc = "call"
    /\ result = NoResult
    /\ stdout = 0
    /\ calls = 0
    /\ first = NoResult

Returned(r) ==
    /\ pc' = "done"
    /\ result' = r
    /\ stdout' = stdout + r.printed
    /\ calls' = calls + 1
    /\ first' = IF calls = 0 THEN r ELSE first
    /\ UNCHANGED << fn, args >>

CallMinimumCurvature ==
    /\ pc = "call"
    /\ fn = "mcc"
    /\ Returned(minimum_curvature_calc(Float(args[1]), Float(args[2]),
                                       Float(args[3]), Float(args[4]),
                                       Float(args[5]), Float(args[6])))

CallVerticalSection ==
    /\ pc = "call"
    /\ fn = "vsc"
    /\ Returned(vertical_section_calc(Float(args[1]), Float(args[2]),
                                      Float(args[3])))

(* the caller makes the same call once more *)
CallAgain ==
    /\ pc = "done"
    /\ calls < MaxCalls
    /\ pc' = "call"
    /\ UNCHANGED << fn, args, result, stdout, calls, first >>

Next == CallMinimumCurvature \/ CallVerticalSection \/ CallAgain

Spec == Init /\ [][Next]_vars

(* ---------------- the claims -------------------------------------------- *)

Done == pc = "done"
MccDone == Done /\ fn = "mcc"
VscDone == Done /\ fn = "vsc"

AllNone(ret) == \A i \in 1 .. 4 : ret[i] = None
NoneMissing(ret) == \A i \in 1 .. 4 : ret[i] # None /\ ret[i] # NoValue

(* C1: minimum_curvature_calc returns None for all four outputs if and     *)
(* only if distance == 0: with distance == 0 every output is None, with    *)
(* distance != 0 no output is missing.                                     *)
C1_NoneIffZeroDistance ==
    MccDone => /\ (args[1] = 0) => AllNone(result.ret)
               /\ (args[1] # 0) => NoneMissing(result.ret)

(* a zero-length call between two different stations has returned *)
C1_Witness ==
    /\ MccDone
    /\ args[1] = 0
    /\ args[3] # args[5]
    /\ AllNone(result.ret)

C3_ArccosArgumentClamped ==
    MccDone => /\ InDomain(result.argument)
               /\ IsFinite(result.dogleg)
               /\ \A i \in 1 .. 4 : ~IsNaN(result.ret[i])

(* C4: with distance > 0 and station 1 equal to station 2, for any         *)
(* convergence: dogleg = 0, ratio_factor = 1, dogleg severity = 0 and the  *)
(* deltas are distance*cos(dip), distance*sin(dip)*cos(az - convergence)   *)
(* and distance*sin(dip)*sin(az - convergence).                            *)
C4_SameStation ==
    (MccDone /\ args[1] > 0 /\ args[2] = args[4] /\ args[3] = args[5]) =>
        LET distance == Float(args[1])
            dip == inclination(Float(args[3]))
            az == azimuth(Float(args[2]), Float(args[6]))
        IN  /\ result.dogleg = Zero
            /\ result.ratio_factor = One
            /\ result.ret[4] = Zero
            /\ result.ret[1] = Mul(distance, np_cos(dip))
            /\ result.ret[2] = Mul(distance, Mul(np_sin(dip), np_cos(az)))
            /\ result.ret[3] = Mul(distance, Mul(np_sin(dip), np_sin(az)))

(* an inclined same-station call with a convergence has returned *)
C4_Witness ==
    /\ MccDone
    /\ args[1] > 0 /\ args[2] = args[4] /\ args[3] = args[5]
    /\ args[3] = 75 /\ args[2] = 90 /\ args[6] # 0
    /\ result.ret[2] # Zero /\ result.ret[3] # Zero

(* C5: the dogleg severity for distance d/2 is exactly twice the dogleg    *)
(* severity for distance d, the angles held fixed, for every d != 0.       *)
C5_SeverityScaling ==
    (MccDone /\ args[1] # 0) =>
        LET halved == minimum_curvature_calc(Div(Float(args[1]), Two),
                          Float(args[2]), Float(args[3]), Float(args[4]),
                          Float(args[5]), Float(args[6]))
        IN  halved.ret[4] = Mul(Two, result.ret[4])

(* a call over an odd distance with a nonzero dogleg severity has returned *)
C5_Witness ==
    /\ MccDone
    /\ args[1] = 1
    /\ IsFinite(result.ret[4])
    /\ result.ret[4] # Zero

(* C6: with northing == 0, for any easting and plan direction:             *)
(* closure_azimuth = 0, closure_distance = |easting|,                      *)
(* directional_difference = -plan_direction and                            *)
(* vertical_section = |easting| * cos(radians(plan_direction)); with       *)
(* easting == 0 as well, closure_distance and vertical_section are 0.      *)
C6_ZeroNorthing ==
    (VscDone /\ args[1] = 0) =>
        LET easting == Float(args[2])
            plan == Float(args[3])
        IN  /\ result.ret[3] = Zero
            /\ result.ret[2] = Abs(easting)
            /\ result.ret[1] = Neg(plan)
            /\ result.ret[4] = Mul(Abs(easting), np_cos(math_radians(plan)))
            /\ (args[2] = 0) => (result.ret[2] = Zero /\ result.ret[4] = Zero)

(* a call with zero northing, a negative easting and a plan direction *)
C6_Witness ==
    /\ VscDone
    /\ args[1] = 0 /\ args[2] < 0 /\ args[3] = 45
    /\ result.ret[3] = Zero

(* 2^-9: the relative error allowed to a few roundings of the model *)
Tolerance == Fin(4096, -21)

(* a and b differ by at most Tolerance * |scale| *)
Close(a, b, scale) == Le(Abs(Sub(a, b)), Mul(Abs(scale), Tolerance))

(* northing*cos(radians(plan)) + easting*sin(radians(plan)) *)
Projection(northing, easting, plan) ==
    Add(Mul(northing, np_cos(math_radians(plan))),
        Mul(easting, np_sin(math_radians(plan))))

(* C7, as claimed: for every northing, easting and plan direction the      *)
(* vertical section is the projection of (northing, easting) onto the plan *)
(* direction (read up to rounding), also for northing negative or zero.    *)
C7_ProjectionEverywhere ==
    VscDone =>
        Close(result.ret[4],
              Projection(Float(args[1]), Float(args[2]), Float(args[3])),
              result.ret[2])

(* C7, amended: up to rounding the vertical section is the projection of   *)
(* (northing, easting) onto the plan direction when northing > 0 and the   *)
(* negated projection when northing < 0.                                   *)
C7_ProjectionByQuadrant ==
    VscDone =>
        LET projection == Projection(Float(args[1]), Float(args[2]),
                                     Float(args[3]))
        IN  /\ (args[1] > 0) =>
                   Close(result.ret[4], projection, result.ret[2])
            /\ (args[1] < 0) =>
                   Close(result.ret[4], Neg(projection), result.ret[2])

(* a call in the second quadrant with an oblique plan direction *)
C7_Witness ==
    /\ VscDone
    /\ args[1] < 0 /\ args[2] > 0 /\ args[3] = 45
    /\ IsFinite(result.ret[4])
    /\ result.ret[4] # Zero

C9_RatioFactorFinite ==
    (MccDone /\ args[1] # 0) =>
        /\ IsFinite(result.ratio_factor)
        /\ (result.dogleg = Zero) <=> (result.ratio_factor = One)
        /\ \A i \in 1 .. 3 : IsFinite(result.ret[i])

(* northing_delta^2 + easting_delta^2 *)
HorizontalSquare(ret) == Add(Mul(ret[2], ret[2]), Mul(ret[3], ret[3]))

(* both undefined, or equal up to rounding *)
Agree(a, b, scale) == (IsNaN(a) /\ IsNaN(b)) \/ Close(a, b, scale)

(* C10: for every distance != 0 the tvd delta, the dogleg severity and     *)
(* northing_delta^2 + easting_delta^2 are the same for every convergence   *)
(* (read up to rounding, and two NaN as the same).                         *)
C10_ConvergenceInvariant ==
    (MccDone /\ args[1] # 0) =>
        \A convergence \in Convergences :
            LET other == minimum_curvature_calc(Float(args[1]),
                             Float(args[2]), Float(args[3]), Float(args[4]),
                             Float(args[5]), Float(convergence))
                distance == Float(args[1])
            IN  /\ Agree(result.ret[1], other.ret[1], distance)
                /\ Agree(result.ret[4], other.ret[4], result.ret[4])
                /\ Agree(HorizontalSquare(result.ret),
                         HorizontalSquare(other.ret), Mul(distance, distance))

=============================================================================
